---------------------------- MODULE Spec2Model ----------------------------
(***************************************************************************)
(* Model of the BayesianAstro embedded-runtime bridge:                     *)
(*   JuliaRuntime          (src/BayesianAstro/cpp/src/JuliaRuntime.cpp)    *)
(*   BayesianAstroInstance (src/BayesianAstro/cpp/src/                     *)
(*                          BayesianAstroInstance.cpp)                     *)
(*   BayesianAstroBridge / BayesianAstroInterface                          *)
(*                         (src/BayesianAstro/cpp/src/                     *)
(*                          BayesianAstroInterface.cpp)                    *)
(*                                                                         *)
(* C++ strings are TLA+ strings; a foreign command is the text handed to   *)
(* jl_eval_string.  The foreign interpreter (libjulia) is the environment: *)
(* whether jl_init starts it and whether an evaluation raises are inputs   *)
(* of the actions.  A float is held in tenths (30 is 3.0f, 1 is 0.1f).     *)
(***************************************************************************)
EXTENDS Integers, Sequences, FiniteSets, TLC

(* ------------------------------ bounds --------------------------------- *)

\* jl_init() is called at most this many times in one behaviour.
MaxStarts == 2

\* p_inputFiles holds at most this many paths.
MaxFiles == 2

(* ------------------------- input domains ------------------------------- *)

\* a plain path, a path with a double quote in it, a path with a NUL in it
FilePaths == {"/d/a.fits", "/d/b\"c.fits", "/d/e\tf.fits"}

OutputDirectories == {"", "/tmp/x"}

OutputPrefixes == {"bayesian", "run1"}

\* descriptions of the errors the foreign runtime raises
ForeignErrors == {"LoadError", "MethodError"}

\* outlier sigma and confidence threshold, in tenths
SigmaValues == {30, 25}

ThresholdValues == {1, 5}

\* the instances handed to the interface: a default-constructed one, and the
\* ones that differ from BaseInstance in one parameter
DefaultInstance ==
    [fusionStrategy        |-> 1,
     inputFiles            |-> <<>>,
     outlierSigma          |-> 30,
     confidenceThreshold   |-> 1,
     useGPU                |-> TRUE,
     generateConfidenceMap |-> TRUE,
     outputDirectory       |-> "",
     outputPrefix          |-> "bayesian"]

BaseInstance ==
    [DefaultInstance EXCEPT !.inputFiles = <<"/d/a.fits">>,
                            !.outputDirectory = "/tmp/x"]

\* the lists of distinct paths
FileLists ==
    {l \in UNION {[1..n -> FilePaths] : n \in 0..MaxFiles} :
        \A i, j \in DOMAIN l : l[i] = l[j] => i = j}

\* what InstallPixInsightModule is called with (pcl::InstallMode)
InstallModes == {"FullInstall", "QueryModuleInfo"}

\* what a size query evaluates to: <<>> for a value that is no tuple, else
\* (sz[1], sz[2])
DimensionResults == {<<>>, <<2, 3>>}

\* the threads that call Initialize at the same time
Threads == {1, 2}

\* the path the queries of the runtime are asked about
QueryPaths == {"/d/a.fits"}

Instances ==
    {DefaultInstance}
    \cup {[BaseInstance EXCEPT !.fusionStrategy = v] : v \in 0..3}
    \cup {[BaseInstance EXCEPT !.inputFiles = l] : l \in FileLists}
    \cup {[BaseInstance EXCEPT !.outlierSigma = v] : v \in SigmaValues}
    \cup {[BaseInstance EXCEPT !.confidenceThreshold = v] : v \in ThresholdValues}
    \cup {[BaseInstance EXCEPT !.useGPU = v] : v \in BOOLEAN}
    \cup {[BaseInstance EXCEPT !.generateConfidenceMap = v] : v \in BOOLEAN}
    \cup {[BaseInstance EXCEPT !.outputDirectory = d] : d \in OutputDirectories}
    \cup {[BaseInstance EXCEPT !.outputPrefix = p] : p \in OutputPrefixes}

NoException == ""

\* std::filesystem::current_path() of the host process
CurrentPath == "/opt/PixInsight"

(* ------------------------------ state ---------------------------------- *)

VARIABLES
    \* JuliaRuntime (the singleton)
    m_initialized,        \* bool m_initialized
    m_juliaModulePath,    \* std::string m_juliaModulePath
    \* the foreign interpreter, as libjulia exposes it
    jlStarted,            \* jl_is_initialized(): started and not torn down
    excPending,           \* jl_exception_occurred(): NoException or a description
    nJlInit,              \* calls of jl_init()
    nPush,                \* evaluations of push!(LOAD_PATH, ...)
    nUsing,               \* evaluations of "using BayesianAstro"
    nTeardown,            \* calls of jl_atexit_hook(0)
    \* the objects InstallPixInsightModule creates
    theModule,            \* TheBayesianAstroModule is set
    theProcess,           \* TheBayesianAstroProcess is set
    theInterface,         \* TheBayesianAstroInterface is set
    \* BayesianAstroInstance (the interface's m_instance)
    p_fusionStrategy,
    p_inputFiles,
    p_outlierSigma,
    p_confidenceThreshold,
    p_useGPU,
    p_generateConfidenceMap,
    p_outputDirectory,
    p_outputPrefix,
    \* what the last operation did
    lastOp,               \* name of the operation
    preInitialized,       \* m_initialized when it was called
    ret,                  \* its boolean return value
    threw,                \* it left by a C++ exception instead of returning
    installMode,          \* the mode InstallPixInsightModule was called with
    installRet,           \* the int InstallPixInsightModule returned, -1 for none
    dims,                 \* the <<width, height>> GetImageDimensions returned
    executed,             \* ExecuteGlobal was entered
    args,                 \* the arguments it gave to ProcessStack
    result,               \* the ProcessingResult of ProcessStack
    fault,                \* the foreign error raised in it: [stage, desc]
    evals,                \* the commands it handed to jl_eval_string
    progress,             \* the percents given to the progress callback
    events,               \* the evaluations and callbacks of ProcessStack, in order
    monitor,              \* the values given to StatusMonitor::Complete
    console,              \* the lines written to the console
    whyNot,               \* CanExecuteGlobal's reason
    emitted,              \* executionComplete signals of the bridge
    \* two threads inside Initialize (SpecConcurrent)
    pc,                   \* the statement of Initialize each thread is at
    tret                  \* what Initialize returned to each thread

rtVars == <<m_initialized, m_juliaModulePath, jlStarted, excPending,
            nJlInit, nPush, nUsing, nTeardown>>

instVars == <<p_fusionStrategy, p_inputFiles, p_outlierSigma,
              p_confidenceThreshold, p_useGPU, p_generateConfidenceMap,
              p_outputDirectory, p_outputPrefix>>

modVars == <<theModule, theProcess, theInterface>>

callVars == <<lastOp, preInitialized, ret, threw, installMode, installRet, dims, executed,
              args, result, fault, evals, progress, events, monitor, console, whyNot,
              emitted>>

thrVars == <<pc, tret>>

vars == <<rtVars, modVars, instVars, callVars, thrVars>>

(* --------------------------- text helpers ------------------------------ *)

Digit(d) == SubSeq("0123456789", d + 1, d + 1)

RECURSIVE IntToString(_)
\* operator<<(int) for a non-negative int
IntToString(n) == IF n < 10 THEN Digit(n)
                  ELSE IntToString(n \div 10) \o Digit(n % 10)

\* operator<<(float), default precision, for a non-negative value held in tenths
FloatToString(t) ==
    IntToString(t \div 10) \o (IF t % 10 = 0 THEN "" ELSE "." \o Digit(t % 10))

BoolToString(b) == IF b THEN "true" ELSE "false"

\* the character standing for the NUL byte in a host string
NulChar == "\t"

\* String::ToUTF8().c_str() read into a std::string: the text up to the first NUL
CStr(s) ==
    LET nuls == {i \in 1..Len(s) : SubSeq(s, i, i) = NulChar}
    IN  IF nuls = {} THEN s
        ELSE SubSeq(s, 1, (CHOOSE i \in nuls : \A j \in nuls : i <= j) - 1)

(* ------------------------- the foreign runtime ------------------------- *)

\* the runtime and the interpreter as one value, for the nested calls
Runtime ==
    [m_initialized     |-> m_initialized,
     m_juliaModulePath |-> m_juliaModulePath,
     jlStarted         |-> jlStarted,
     excPending        |-> excPending,
     nJlInit           |-> nJlInit,
     nPush             |-> nPush,
     nUsing            |-> nUsing,
     nTeardown         |-> nTeardown]

\* a foreign error: the evaluation (1, 2, ...) of the call that raises, 0 for none
NoFault == [stage |-> 0, desc |-> NoException]

Faults(n) == {NoFault} \cup [stage : 1..n, desc : ForeignErrors]

\* jl_init(): starts the interpreter unless it is running; ok is whether the
\* start succeeds.  A freshly started interpreter has no exception pending.
JlInit(rt, ok) ==
    IF rt.jlStarted THEN [rt EXCEPT !.nJlInit = @ + 1]
    ELSE [rt EXCEPT !.nJlInit = @ + 1,
                    !.jlStarted = ok,
                    !.excPending = IF ok THEN NoException ELSE @]

\* jl_eval_string, the k-th evaluation of a call under fault f: it leaves the
\* raised exception pending, or none when the evaluation succeeds
JlEvalString(rt, k, f) ==
    [rt EXCEPT !.excPending = IF f.stage = k THEN f.desc ELSE NoException]

\* jl_atexit_hook(0)
JlAtexitHook(rt) == [rt EXCEPT !.jlStarted = FALSE, !.nTeardown = @ + 1]

(* ----------------------------- JuliaRuntime ---------------------------- *)

\* HandleJuliaException with jl_exception_clear() dropped
HandleJuliaException_NoClear(rt) == rt

HandleJuliaException(rt) ==
    IF rt.excPending # NoException
    THEN [rt EXCEPT !.excPending = NoException]   \* jl_exception_clear()
    ELSE rt

\* Shutdown with the m_initialized test dropped
Shutdown_NoReadyCheck(rt) ==
    [JlAtexitHook(rt) EXCEPT !.m_initialized = FALSE]

Shutdown(rt) ==
    IF rt.m_initialized
    THEN [JlAtexitHook(rt) EXCEPT !.m_initialized = FALSE]
    ELSE rt

PushLoadPathCmd(path) == "push!(LOAD_PATH, \"" \o path \o "\")"

LoadBayesianAstroModule(rt, f) ==
    LET pushCmd == PushLoadPathCmd(rt.m_juliaModulePath)
        r1 == JlEvalString([rt EXCEPT !.nPush = @ + 1], 1, f)
        r2 == JlEvalString([r1 EXCEPT !.nUsing = @ + 1], 2, f)
        \* the module lookup is not checked for an exception
        r3 == JlEvalString(r2, 3, f)
    IN  IF r1.excPending # NoException
        THEN [rt |-> HandleJuliaException(r1), ok |-> FALSE,
              evals |-> <<pushCmd>>]
        ELSE IF r2.excPending # NoException
        THEN [rt |-> HandleJuliaException(r2), ok |-> FALSE,
              evals |-> <<pushCmd, "using BayesianAstro">>]
        ELSE [rt |-> r3, ok |-> TRUE,
              evals |-> <<pushCmd, "using BayesianAstro", "BayesianAstro">>]

\* Initialize past its m_initialized test: start the interpreter, load the
\* module.  pathOk is whether std::filesystem::current_path() returns; when it
\* throws, the exception leaves Initialize (threw) and nothing is returned.
StartAndLoad(rt, jlOk, pathOk, f) ==
    LET r0 == JlInit(rt, jlOk)
        r1 == [r0 EXCEPT !.m_juliaModulePath = CurrentPath \o "/julia"]
        l  == LoadBayesianAstroModule(r1, f)
    IN  IF ~r0.jlStarted
        THEN [rt |-> r0, ret |-> FALSE, threw |-> FALSE, evals |-> <<>>]
        ELSE IF ~pathOk
        THEN [rt |-> r0, ret |-> FALSE, threw |-> TRUE, evals |-> <<>>]
        ELSE IF ~l.ok
        THEN [rt |-> Shutdown(l.rt), ret |-> FALSE, threw |-> FALSE,
              evals |-> l.evals]
        ELSE [rt |-> [l.rt EXCEPT !.m_initialized = TRUE], ret |-> TRUE,
              threw |-> FALSE, evals |-> l.evals]

\* Initialize with the m_initialized test dropped
Initialize_NoReadyCheck(rt, jlOk, pathOk, f) == StartAndLoad(rt, jlOk, pathOk, f)

\* Initialize() with the default juliaHome, as InstallPixInsightModule calls it
Initialize(rt, jlOk, pathOk, f) ==
    IF rt.m_initialized
    THEN [rt |-> rt, ret |-> TRUE, threw |-> FALSE, evals |-> <<>>]
    ELSE StartAndLoad(rt, jlOk, pathOk, f)

\* what the environment does during one query: its evaluation raises, or it
\* yields one of the values
QueryOutcomes(values) ==
    {[f |-> g, value |-> CHOOSE v \in values : TRUE] :
        g \in Faults(1) \ {NoFault}}
    \cup {[f |-> NoFault, value |-> v] : v \in values}

\* what the environment does during one Initialize: jl_init fails, or
\* current_path() throws, or the evaluations run under a fault
StartOutcomes ==
    {[jlOk |-> FALSE, pathOk |-> TRUE, f |-> NoFault],
     [jlOk |-> TRUE, pathOk |-> FALSE, f |-> NoFault]}
    \cup {[jlOk |-> TRUE, pathOk |-> TRUE, f |-> g] : g \in Faults(3)}

\* a default-constructed ProcessingResult
NewProcessingResult ==
    [success           |-> FALSE,
     errorMessage      |-> "",
     fusedImagePath    |-> "",
     confidenceMapPath |-> "",
     totalPixels       |-> 0,
     meanConfidence    |-> 0,
     gaussianPixels    |-> 0,
     poissonPixels     |-> 0,
     bimodalPixels     |-> 0,
     artifactPixels    |-> 0]

\* Failure with the message left out
Failure_NoMessage(msg) == NewProcessingResult

Failure(msg) ==
    [NewProcessingResult EXCEPT !.success = FALSE, !.errorMessage = msg]

RECURSIVE FilesArrayItems(_, _)
FilesArrayItems(inputFiles, i) ==
    IF i > Len(inputFiles) THEN ""
    ELSE (IF i > 1 THEN ", " ELSE "") \o "\"" \o inputFiles[i] \o "\""
         \o FilesArrayItems(inputFiles, i + 1)

FilesArrayCmd(inputFiles) == "String[" \o FilesArrayItems(inputFiles, 1) \o "]"

ConfigCmd(config) ==
    "ProcessingConfig("
    \o "fusion_strategy=" \o IntToString(config.fusionStrategy) \o ", "
    \o "confidence_threshold=" \o FloatToString(config.confidenceThreshold) \o "f0, "
    \o "outlier_sigma=" \o FloatToString(config.outlierSigma) \o "f0, "
    \o "tile_size=(" \o IntToString(config.tileSizeX) \o ", "
                     \o IntToString(config.tileSizeY) \o "), "
    \o "use_gpu=" \o BoolToString(config.useGPU)
    \o ")"

ProcessCmd(outputDirectory, outputPrefix, config) ==
    "process_directory("
    \o "\"" \o outputDirectory \o "/" \o outputPrefix \o "\", "
    \o "config=" \o ConfigCmd(config)
    \o ")"

\* FusedImagePath with the "/" between directory and prefix dropped
FusedImagePath_NoSeparator(outputDirectory, outputPrefix) ==
    outputDirectory \o outputPrefix \o "_fused.fits"

FusedImagePath(outputDirectory, outputPrefix) ==
    outputDirectory \o "/" \o outputPrefix \o "_fused.fits"

ConfidenceMapPath(outputDirectory, outputPrefix) ==
    outputDirectory \o "/" \o outputPrefix \o "_confidence.fits"

\* the errorMessage of a run whose evaluation `stage` raised `desc`
FileListError(desc) == "Failed to create input file list"

ConfigError(desc) == "Failed to create processing config"

\* PipelineError wrapping the foreign description
PipelineError_WrapsDescription(desc) == "Processing failed: " \o desc

PipelineError(desc) == "Processing failed - see console for details"

ProgressEvent(percent, status) == [percent |-> percent, status |-> status]

\* the callbacks of a run that got as far as the given point
StartProgress(hasCallback) ==
    IF hasCallback THEN <<ProgressEvent(0, "Loading frames...")>> ELSE <<>>

\* CompleteProgress with the 100% callback dropped
CompleteProgress_Missing(hasCallback) == <<>>

CompleteProgress(hasCallback) ==
    IF hasCallback THEN <<ProgressEvent(100, "Complete")>> ELSE <<>>

\* the k-th jl_eval_string of a ProcessStack call, as an event
Evaluation(k) == [kind |-> "eval", n |-> k]

\* the callbacks given, as events
Callbacks(given) ==
    [i \in 1..Len(given) |-> [kind |-> "callback", n |-> given[i].percent]]

\* PipelineEvents with the first callbacks made after the pipeline evaluation
PipelineEvents_CallbackAfterPipeline(start, complete) ==
    <<Evaluation(1), Evaluation(2), Evaluation(3)>>
    \o Callbacks(start) \o Callbacks(complete)

\* the order of a ProcessStack call that reached the pipeline evaluation: the
\* file list, the config, the callbacks `start`, the pipeline, then the
\* callbacks `complete`
PipelineEvents(start, complete) ==
    <<Evaluation(1), Evaluation(2)>> \o Callbacks(start)
    \o <<Evaluation(3)>> \o Callbacks(complete)

\* ProcessStack past its m_initialized test
RunPipeline(rt, inputFiles, outputDirectory, outputPrefix, config, hasCallback, f) ==
    LET filesCmd   == FilesArrayCmd(inputFiles)
        configCmd  == ConfigCmd(config)
        processCmd == ProcessCmd(outputDirectory, outputPrefix, config)
        r1 == JlEvalString(rt, 1, f)
        r2 == JlEvalString(r1, 2, f)
        r3 == JlEvalString(r2, 3, f)
    IN  IF r1.excPending # NoException
        THEN [rt |-> HandleJuliaException(r1),
              result |-> Failure(FileListError(r1.excPending)),
              evals |-> <<filesCmd>>, progress |-> <<>>,
              events |-> <<Evaluation(1)>>]
        ELSE IF r2.excPending # NoException
        THEN [rt |-> HandleJuliaException(r2),
              result |-> Failure(ConfigError(r2.excPending)),
              evals |-> <<filesCmd, configCmd>>, progress |-> <<>>,
              events |-> <<Evaluation(1), Evaluation(2)>>]
        ELSE IF r3.excPending # NoException
        THEN [rt |-> HandleJuliaException(r3),
              result |-> Failure(PipelineError(r3.excPending)),
              evals |-> <<filesCmd, configCmd, processCmd>>,
              progress |-> StartProgress(hasCallback),
              events |-> PipelineEvents(StartProgress(hasCallback), <<>>)]
        ELSE [rt |-> r3,
              result |-> [NewProcessingResult EXCEPT
                  !.success = TRUE,
                  !.fusedImagePath =
                      FusedImagePath(outputDirectory, outputPrefix),
                  !.confidenceMapPath =
                      ConfidenceMapPath(outputDirectory, outputPrefix)],
              evals |-> <<filesCmd, configCmd, processCmd>>,
              progress |-> StartProgress(hasCallback)
                           \o CompleteProgress(hasCallback),
              events |-> PipelineEvents(StartProgress(hasCallback),
                                        CompleteProgress(hasCallback))]

\* ProcessStack with the m_initialized test dropped
ProcessStack_NoReadyCheck(rt, inputFiles, outputDirectory, outputPrefix, config, hasCallback, f) ==
    RunPipeline(rt, inputFiles, outputDirectory, outputPrefix, config,
                hasCallback, f)

ProcessStack(rt, inputFiles, outputDirectory, outputPrefix, config, hasCallback, f) ==
    IF ~rt.m_initialized
    THEN [rt |-> rt, result |-> Failure("Julia runtime not initialized"),
          evals |-> <<>>, progress |-> <<>>, events |-> <<>>]
    ELSE RunPipeline(rt, inputFiles, outputDirectory, outputPrefix, config,
                     hasCallback, f)

\* IsGPUAvailable past its m_initialized test; value is what the foreign
\* expression evaluates to
QueryGPU(rt, f, value) ==
    LET r1 == JlEvalString(rt, 1, f)
    IN  [rt    |-> r1,
         ret   |-> IF r1.excPending # NoException THEN FALSE ELSE value,
         evals |-> <<"BayesianAstro.CUDA_AVAILABLE[]">>]

\* IsGPUAvailable with the m_initialized test dropped
IsGPUAvailable_NoReadyCheck(rt, f, value) == QueryGPU(rt, f, value)

IsGPUAvailable(rt, f, value) ==
    IF ~rt.m_initialized
    THEN [rt |-> rt, ret |-> FALSE, evals |-> <<>>]
    ELSE QueryGPU(rt, f, value)

ValidateFitsCmd(path) ==
    "try; FITS(\"" \o path \o "\", \"r\"); true; catch; false; end"

ValidateFitsFile(rt, path, f, value) ==
    LET r1 == JlEvalString(rt, 1, f)
    IN  IF ~rt.m_initialized
        THEN [rt |-> rt, ret |-> FALSE, evals |-> <<>>]
        ELSE [rt    |-> r1,
              ret   |-> IF r1.excPending # NoException THEN FALSE ELSE value,
              evals |-> <<ValidateFitsCmd(path)>>]

ImageDimensionsCmd(path) ==
    "let f = FITS(\"" \o path \o "\", \"r\"); "
    \o "sz = size(read(f[1])); close(f); (sz[1], sz[2]); end"

\* value is <<>> when the foreign result is no tuple; field 0 is the height
GetImageDimensions(rt, path, f, value) ==
    LET r1 == JlEvalString(rt, 1, f)
    IN  IF ~rt.m_initialized
        THEN [rt |-> rt, dims |-> <<0, 0>>, evals |-> <<>>]
        ELSE [rt    |-> r1,
              dims  |-> IF r1.excPending # NoException \/ value = <<>>
                        THEN <<0, 0>>
                        ELSE <<value[2], value[1]>>,
              evals |-> <<ImageDimensionsCmd(path)>>]

(* ------------------------- BayesianAstroModule ------------------------- *)

\* the end of InstallPixInsightModule's FullInstall branch after an Initialize
\* that returned: the process and the interface are created, 0 is returned
Registered(init) ==
    [rt        |-> init.rt,
     process   |-> TRUE,
     interface |-> TRUE,
     ret       |-> 0,
     threw     |-> FALSE,
     evals     |-> init.evals,
     console   |-> IF init.threw
                   THEN <<"** BayesianAstro: Julia initialization deferred">>
                   ELSE IF ~init.ret
                   THEN <<"** BayesianAstro: Failed to initialize Julia runtime">>
                   ELSE <<>>]

\* FullInstall without the catch (...): the exception of Initialize leaves
\* InstallPixInsightModule before anything is created
FullInstall_NoCatch(init) ==
    IF init.threw
    THEN [Registered(init) EXCEPT !.process = FALSE, !.interface = FALSE,
                                  !.ret = -1, !.threw = TRUE]
    ELSE Registered(init)

\* the FullInstall branch, given what Initialize did
FullInstall(init) == Registered(init)

\* InstallPixInsightModule(mode)
InstallModule(rt, mode, jlOk, pathOk, f) ==
    IF mode = "FullInstall"
    THEN FullInstall(Initialize(rt, jlOk, pathOk, f))
    ELSE [rt |-> rt, process |-> FALSE, interface |-> FALSE, ret |-> 0,
          threw |-> FALSE, evals |-> <<>>, console |-> <<>>]

(* ------------------------ BayesianAstroInstance ------------------------ *)

\* ToFusionStrategy with the + 1 dropped
ToFusionStrategy_NoOffset(strategy) == strategy

\* static_cast<FusionStrategy>(p_fusionStrategy + 1), read back as int
ToFusionStrategy(strategy) == strategy + 1

\* the reason CanExecuteGlobal gives, "" when it returns true
CanExecuteGlobal(rt) ==
    IF Len(p_inputFiles) = 0 THEN "No input files specified."
    ELSE IF p_outputDirectory = "" THEN "No output directory specified."
    ELSE IF ~rt.m_initialized THEN "Julia runtime not initialized."
    ELSE ""

\* String().Format("%.3f", v) for a non-negative value held in tenths
FormatFixed3(t) == IntToString(t \div 10) \o "." \o Digit(t % 10) \o "00"

\* the instance as one value
Instance ==
    [fusionStrategy        |-> p_fusionStrategy,
     inputFiles            |-> p_inputFiles,
     outlierSigma          |-> p_outlierSigma,
     confidenceThreshold   |-> p_confidenceThreshold,
     useGPU                |-> p_useGPU,
     generateConfidenceMap |-> p_generateConfidenceMap,
     outputDirectory       |-> p_outputDirectory,
     outputPrefix          |-> p_outputPrefix]

\* ExecutedInstance with the converted paths stored back into p_inputFiles
ExecutedInstance_StoresConverted(inst, inputFiles) ==
    [inst EXCEPT !.inputFiles = inputFiles]

\* the instance when ExecuteGlobal returns: the converted paths go to a local
\* vector, the config is a local, ProcessStack takes both by const reference,
\* and no member is assigned
ExecutedInstance(inst, inputFiles) == inst

\* MonitorValues with monitor.Complete(100) made before the ProcessStack call
MonitorValues_CompleteFirst(percents) == <<100>> \o percents

\* the values given to monitor.Complete: the percents the progress callback
\* passes on, then the 100 after ProcessStack has returned
MonitorValues(percents) == percents \o <<100>>

ExecuteGlobal(rt, f) ==
    LET inputFiles == [i \in 1..Len(p_inputFiles) |-> CStr(p_inputFiles[i])]
        config == [fusionStrategy      |-> ToFusionStrategy(p_fusionStrategy),
                   confidenceThreshold |-> p_confidenceThreshold,
                   outlierSigma        |-> p_outlierSigma,
                   tileSizeX           |-> 1024,
                   tileSizeY           |-> 1024,
                   useGPU              |-> p_useGPU]
        ps == ProcessStack(rt, inputFiles, CStr(p_outputDirectory),
                           CStr(p_outputPrefix), config, TRUE, f)
        head == <<"<b>BayesianAstro</b>",
                  "Processing " \o IntToString(Len(p_inputFiles)) \o " frames...">>
                \o [i \in 1..Len(ps.progress) |-> ps.progress[i].status]
    IN  [rt       |-> ps.rt,
         inst     |-> ExecutedInstance(Instance, inputFiles),
         args     |-> [inputFiles      |-> inputFiles,
                       outputDirectory |-> CStr(p_outputDirectory),
                       outputPrefix    |-> CStr(p_outputPrefix),
                       config          |-> config],
         result   |-> ps.result,
         evals    |-> ps.evals,
         events   |-> ps.events,
         progress |-> [i \in 1..Len(ps.progress) |-> ps.progress[i].percent],
         monitor  |-> MonitorValues(
                          [i \in 1..Len(ps.progress) |-> ps.progress[i].percent]),
         ret      |-> ps.result.success,
         console  |->
            IF ~ps.result.success
            THEN head \o <<"** Processing failed: " \o ps.result.errorMessage>>
            ELSE head
                 \o <<"Fused image: " \o ps.result.fusedImagePath>>
                 \o (IF p_generateConfidenceMap
                     THEN <<"Confidence map: " \o ps.result.confidenceMapPath>>
                     ELSE <<>>)
                 \o <<"Mean confidence: "
                      \o FormatFixed3(ps.result.meanConfidence)>>]

(* ------------------------------ actions -------------------------------- *)

\* no ProcessStack call was made
NoArguments ==
    [inputFiles      |-> <<>>,
     outputDirectory |-> "",
     outputPrefix    |-> "",
     config          |-> [fusionStrategy      |-> 0,
                          confidenceThreshold |-> 0,
                          outlierSigma        |-> 0,
                          tileSizeX           |-> 0,
                          tileSizeY           |-> 0,
                          useGPU              |-> FALSE]]

SetInstance(inst) ==
    /\ p_fusionStrategy' = inst.fusionStrategy
    /\ p_inputFiles' = inst.inputFiles
    /\ p_outlierSigma' = inst.outlierSigma
    /\ p_confidenceThreshold' = inst.confidenceThreshold
    /\ p_useGPU' = inst.useGPU
    /\ p_generateConfidenceMap' = inst.generateConfidenceMap
    /\ p_outputDirectory' = inst.outputDirectory
    /\ p_outputPrefix' = inst.outputPrefix

SetRuntime(rt) ==
    /\ m_initialized' = rt.m_initialized
    /\ m_juliaModulePath' = rt.m_juliaModulePath
    /\ jlStarted' = rt.jlStarted
    /\ excPending' = rt.excPending
    /\ nJlInit' = rt.nJlInit
    /\ nPush' = rt.nPush
    /\ nUsing' = rt.nUsing
    /\ nTeardown' = rt.nTeardown

\* an operation that runs no ExecuteGlobal leaves nothing of one behind
NoExecution ==
    /\ executed' = FALSE
    /\ args' = NoArguments
    /\ result' = NewProcessingResult
    /\ fault' = NoFault
    /\ progress' = <<>>
    /\ events' = <<>>
    /\ monitor' = <<>>
    /\ console' = <<>>
    /\ emitted' = <<>>

\* a query of the runtime runs no ExecuteGlobal either
NoQueryExecution ==
    /\ executed' = FALSE
    /\ args' = NoArguments
    /\ result' = NewProcessingResult
    /\ progress' = <<>>
    /\ events' = <<>>
    /\ monitor' = <<>>
    /\ console' = <<>>
    /\ emitted' = <<>>
    /\ whyNot' = ""

\* an operation called by the host's one thread
Called(op) ==
    /\ lastOp' = op
    /\ preInitialized' = m_initialized
    /\ UNCHANGED thrVars

\* an operation that returned, and was neither the install nor a size query
Returned ==
    /\ threw' = FALSE
    /\ installMode' = ""
    /\ installRet' = -1
    /\ dims' = <<0, 0>>

\* the effects of one ExecuteGlobal under fault f
Execution(f) ==
    LET x == ExecuteGlobal(Runtime, f)
    IN  /\ SetRuntime(x.rt)
        /\ SetInstance(x.inst)
        /\ executed' = TRUE
        /\ args' = x.args
        /\ ret' = x.ret
        /\ result' = x.result
        /\ fault' = IF Len(x.evals) >= f.stage THEN f ELSE NoFault
        /\ evals' = x.evals
        /\ progress' = x.progress
        /\ events' = x.events
        /\ monitor' = x.monitor
        /\ console' = x.console

\* InstallPixInsightModule, called by the host once when it loads the module
InstallPixInsightModule(mode, jlOk, pathOk, f) ==
    /\ ~theModule
    /\ mode = "FullInstall" => (m_initialized \/ nJlInit < MaxStarts)
    /\ LET x == InstallModule(Runtime, mode, jlOk, pathOk, f)
       IN  /\ SetRuntime(x.rt)
           /\ theModule' = TRUE
           /\ theProcess' = x.process
           /\ theInterface' = x.interface
           /\ installMode' = mode
           /\ installRet' = x.ret
           /\ threw' = x.threw
           /\ evals' = x.evals
           /\ console' = x.console
    /\ Called("InstallPixInsightModule")
    /\ ret' = TRUE
    /\ dims' = <<0, 0>>
    /\ executed' = FALSE
    /\ args' = NoArguments
    /\ result' = NewProcessingResult
    /\ fault' = NoFault
    /\ progress' = <<>>
    /\ events' = <<>>
    /\ monitor' = <<>>
    /\ emitted' = <<>>
    /\ whyNot' = ""
    /\ UNCHANGED instVars

CallInitialize(jlOk, pathOk, f) ==
    /\ m_initialized \/ nJlInit < MaxStarts
    /\ LET x == Initialize(Runtime, jlOk, pathOk, f)
       IN  /\ SetRuntime(x.rt)
           /\ ret' = x.ret
           /\ threw' = x.threw
           /\ evals' = x.evals
    /\ Called("Initialize")
    /\ installMode' = ""
    /\ installRet' = -1
    /\ dims' = <<0, 0>>
    /\ NoExecution
    /\ whyNot' = ""
    /\ UNCHANGED <<modVars, instVars>>

CallShutdown ==
    /\ SetRuntime(Shutdown(Runtime))
    /\ Called("Shutdown")
    /\ Returned
    /\ ret' = TRUE
    /\ evals' = <<>>
    /\ NoExecution
    /\ whyNot' = ""
    /\ UNCHANGED <<modVars, instVars>>

CallIsGPUAvailable(f, value) ==
    /\ LET x == IsGPUAvailable(Runtime, f, value)
       IN  /\ SetRuntime(x.rt)
           /\ ret' = x.ret
           /\ evals' = x.evals
           /\ fault' = IF Len(x.evals) >= f.stage THEN f ELSE NoFault
    /\ Called("IsGPUAvailable")
    /\ Returned
    /\ NoQueryExecution
    /\ UNCHANGED <<modVars, instVars>>

CallValidateFitsFile(path, f, value) ==
    /\ LET x == ValidateFitsFile(Runtime, path, f, value)
       IN  /\ SetRuntime(x.rt)
           /\ ret' = x.ret
           /\ evals' = x.evals
           /\ fault' = IF Len(x.evals) >= f.stage THEN f ELSE NoFault
    /\ Called("ValidateFitsFile")
    /\ Returned
    /\ NoQueryExecution
    /\ UNCHANGED <<modVars, instVars>>

CallGetImageDimensions(path, f, value) ==
    /\ LET x == GetImageDimensions(Runtime, path, f, value)
       IN  /\ SetRuntime(x.rt)
           /\ dims' = x.dims
           /\ evals' = x.evals
           /\ fault' = IF Len(x.evals) >= f.stage THEN f ELSE NoFault
    /\ Called("GetImageDimensions")
    /\ threw' = FALSE
    /\ installMode' = ""
    /\ installRet' = -1
    /\ ret' = TRUE
    /\ NoQueryExecution
    /\ UNCHANGED <<modVars, instVars>>

\* the host's global execution: ExecuteGlobal only when CanExecuteGlobal allows
HostGlobalExecution(f) ==
    /\ theProcess
    /\ Called("HostGlobalExecution")
    /\ Returned
    /\ whyNot' = CanExecuteGlobal(Runtime)
    /\ IF CanExecuteGlobal(Runtime) = ""
       THEN /\ Execution(f)
            /\ emitted' = <<>>
       ELSE /\ NoExecution
            /\ ret' = FALSE
            /\ evals' = <<>>
            /\ UNCHANGED <<rtVars, instVars>>
    /\ UNCHANGED modVars

\* BayesianAstroInterface::ApplyInstance
ApplyInstance(f) ==
    /\ theInterface
    /\ Called("ApplyInstance")
    /\ Returned
    /\ whyNot' = ""
    /\ Execution(f)
    /\ emitted' = <<>>
    /\ UNCHANGED modVars

\* BayesianAstroBridge::execute, with m_instance set by InitializeWebView
BridgeExecute(f) ==
    /\ theInterface
    /\ Called("BridgeExecute")
    /\ Returned
    /\ whyNot' = ""
    /\ Execution(f)
    /\ emitted' = <<[success |-> ExecuteGlobal(Runtime, f).ret,
                     message |-> IF ExecuteGlobal(Runtime, f).ret
                                 THEN "Processing complete"
                                 ELSE "Processing failed"]>>
    /\ UNCHANGED modVars

\* BayesianAstroInterface::ImportProcess: Assign copies every parameter of x
ImportProcess(x) ==
    /\ theInterface
    /\ p_fusionStrategy' = x.fusionStrategy
    /\ p_inputFiles' = x.inputFiles
    /\ p_outlierSigma' = x.outlierSigma
    /\ p_confidenceThreshold' = x.confidenceThreshold
    /\ p_useGPU' = x.useGPU
    /\ p_generateConfidenceMap' = x.generateConfidenceMap
    /\ p_outputDirectory' = x.outputDirectory
    /\ p_outputPrefix' = x.outputPrefix
    /\ Called("ImportProcess")
    /\ Returned
    /\ ret' = TRUE
    /\ evals' = <<>>
    /\ whyNot' = ""
    /\ NoExecution
    /\ UNCHANGED <<rtVars, modVars>>

(* --------------------------- specification ----------------------------- *)

\* a default-constructed runtime and instance
Init ==
    /\ m_initialized = FALSE
    /\ m_juliaModulePath = ""
    /\ jlStarted = FALSE
    /\ excPending = NoException
    /\ nJlInit = 0
    /\ nPush = 0
    /\ nUsing = 0
    /\ nTeardown = 0
    /\ theModule = FALSE
    /\ theProcess = FALSE
    /\ theInterface = FALSE
    /\ p_fusionStrategy = DefaultInstance.fusionStrategy
    /\ p_inputFiles = DefaultInstance.inputFiles
    /\ p_outlierSigma = DefaultInstance.outlierSigma
    /\ p_confidenceThreshold = DefaultInstance.confidenceThreshold
    /\ p_useGPU = DefaultInstance.useGPU
    /\ p_generateConfidenceMap = DefaultInstance.generateConfidenceMap
    /\ p_outputDirectory = DefaultInstance.outputDirectory
    /\ p_outputPrefix = DefaultInstance.outputPrefix
    /\ lastOp = "None"
    /\ preInitialized = FALSE
    /\ ret = TRUE
    /\ threw = FALSE
    /\ installMode = ""
    /\ installRet = -1
    /\ dims = <<0, 0>>
    /\ executed = FALSE
    /\ args = NoArguments
    /\ result = NewProcessingResult
    /\ fault = NoFault
    /\ evals = <<>>
    /\ progress = <<>>
    /\ events = <<>>
    /\ monitor = <<>>
    /\ console = <<>>
    /\ whyNot = ""
    /\ emitted = <<>>
    /\ pc = [t \in Threads |-> "test"]
    /\ tret = [t \in Threads |-> FALSE]

\* the evaluations of a call that can raise: those of a call on an initialized
\* runtime; a call on one that is not initialized is given no fault
Raisable(n) == IF m_initialized THEN Faults(n) ELSE {NoFault}

Next ==
    \/ \E mode \in InstallModes, e \in StartOutcomes :
           InstallPixInsightModule(mode, e.jlOk, e.pathOk, e.f)
    \/ \E e \in StartOutcomes : CallInitialize(e.jlOk, e.pathOk, e.f)
    \/ CallShutdown
    \/ \E o \in QueryOutcomes(BOOLEAN) : CallIsGPUAvailable(o.f, o.value)
    \/ \E path \in QueryPaths, o \in QueryOutcomes(BOOLEAN) :
           CallValidateFitsFile(path, o.f, o.value)
    \/ \E path \in QueryPaths, o \in QueryOutcomes(DimensionResults) :
           CallGetImageDimensions(path, o.f, o.value)
    \/ \E f \in Raisable(3) : HostGlobalExecution(f)
    \/ \E f \in Raisable(3) : ApplyInstance(f)
    \/ \E f \in Raisable(3) : BridgeExecute(f)
    \/ \E x \in Instances : ImportProcess(x)

Spec == Init /\ [][Next]_vars

(* ------------------ two threads calling Initialize --------------------- *)

\* Initialize() on the singleton, one statement of one thread at a time; the
\* class holds no lock

Goto(t, label) ==
    /\ pc' = [pc EXCEPT ![t] = label]
    /\ UNCHANGED tret

Return(t, value) ==
    /\ pc' = [pc EXCEPT ![t] = "done"]
    /\ tret' = [tret EXCEPT ![t] = value]

\* if (m_initialized) return true;
InitializeTest(t) ==
    /\ pc[t] = "test"
    /\ IF m_initialized THEN Return(t, TRUE) ELSE Goto(t, "jl_init")
    /\ UNCHANGED <<rtVars, modVars, instVars, callVars>>

\* jl_init(); if (!jl_is_initialized()) return false;
InitializeStart(t, jlOk) ==
    /\ pc[t] = "jl_init"
    /\ SetRuntime(JlInit(Runtime, jlOk))
    /\ IF JlInit(Runtime, jlOk).jlStarted
       THEN Goto(t, "path") ELSE Return(t, FALSE)
    /\ UNCHANGED <<modVars, instVars, callVars>>

\* m_juliaModulePath = current_path() + "/julia";
InitializeSetPath(t) ==
    /\ pc[t] = "path"
    /\ SetRuntime([Runtime EXCEPT !.m_juliaModulePath = CurrentPath \o "/julia"])
    /\ Goto(t, "push")
    /\ UNCHANGED <<modVars, instVars, callVars>>

\* an evaluation of LoadBayesianAstroModule that is checked, here on rt; when
\* it raises, Initialize calls Shutdown() and returns false
CheckedLoadStep(t, rt, f, next) ==
    LET r1 == JlEvalString(rt, 1, f)
    IN  /\ IF r1.excPending # NoException
           THEN /\ SetRuntime(Shutdown(HandleJuliaException(r1)))
                /\ Return(t, FALSE)
           ELSE /\ SetRuntime(r1)
                /\ Goto(t, next)
        /\ UNCHANGED <<modVars, instVars, callVars>>

\* jl_eval_string("push!(LOAD_PATH, ...)")
InitializePush(t, f) ==
    /\ pc[t] = "push"
    /\ CheckedLoadStep(t, [Runtime EXCEPT !.nPush = @ + 1], f, "using")

\* jl_eval_string("using BayesianAstro")
InitializeUsing(t, f) ==
    /\ pc[t] = "using"
    /\ CheckedLoadStep(t, [Runtime EXCEPT !.nUsing = @ + 1], f, "lookup")

\* jl_eval_string("BayesianAstro"), not checked
InitializeLookup(t, f) ==
    /\ pc[t] = "lookup"
    /\ SetRuntime(JlEvalString(Runtime, 1, f))
    /\ Goto(t, "set")
    /\ UNCHANGED <<modVars, instVars, callVars>>

\* m_initialized = true; return true;
InitializeSet(t) ==
    /\ pc[t] = "set"
    /\ SetRuntime([Runtime EXCEPT !.m_initialized = TRUE])
    /\ Return(t, TRUE)
    /\ UNCHANGED <<modVars, instVars, callVars>>

NextConcurrent ==
    \E t \in Threads :
        \/ InitializeTest(t)
        \/ \E jlOk \in BOOLEAN : InitializeStart(t, jlOk)
        \/ InitializeSetPath(t)
        \/ \E f \in Faults(1) : InitializePush(t, f)
        \/ \E f \in Faults(1) : InitializeUsing(t, f)
        \/ \E f \in Faults(1) : InitializeLookup(t, f)
        \/ InitializeSet(t)

SpecConcurrent == Init /\ [][NextConcurrent]_vars

(* ------------------------------ claims --------------------------------- *)

\* an operation that entered ExecuteGlobal, and so called ProcessStack
ExecutionOps == {"HostGlobalExecution", "ApplyInstance", "BridgeExecute"}

\* C1: an Initialize call made while IsInitialized() is true returns true and
\* leaves the jl_init, push!(LOAD_PATH) and "using BayesianAstro" counters, and
\* IsInitialized(), as they were.
C1_InitializeIdempotentWhenReady ==
    [][(lastOp' = "Initialize" /\ m_initialized) =>
          /\ ret' = TRUE
          /\ m_initialized'
          /\ nJlInit' = nJlInit
          /\ nPush' = nPush
          /\ nUsing' = nUsing
          /\ evals' = <<>>]_vars

\* C1 witness: Initialize was called on a Ready runtime and returned true
C1_Witness ==
    /\ lastOp = "Initialize"
    /\ preInitialized
    /\ ret = TRUE
    /\ nJlInit = 1

\* C2: whenever Initialize returns false, IsInitialized() is false and no
\* started interpreter is left running (it was torn down).
C2_FailedInitializeLeavesNothingStarted ==
    (lastOp = "Initialize" /\ ret = FALSE) =>
        /\ ~m_initialized
        /\ ~jlStarted

\* C3: Shutdown on a runtime that is not initialized (never initialized, or
\* already shut down) runs no teardown and changes nothing; on a Ready runtime
\* it runs the teardown once and makes IsInitialized() false.
C3_ShutdownIdempotent ==
    [][lastOp' = "Shutdown" =>
          /\ ~m_initialized'
          /\ m_initialized =>
                /\ nTeardown' = nTeardown + 1
                /\ ~jlStarted'
          /\ ~m_initialized =>
                /\ nTeardown' = nTeardown
                /\ rtVars' = rtVars
          /\ instVars' = instVars]_vars

\* C3 witness: a Ready runtime was shut down, and Shutdown was called again
C3_Witness ==
    /\ lastOp = "Shutdown"
    /\ ~preInitialized
    /\ nTeardown = 1
    /\ ~m_initialized

\* C4: ProcessStack on a runtime that is not initialized returns success=false
\* with a non-empty errorMessage, calls the progress callback zero times and
\* evaluates nothing in the foreign runtime.
C4_NotInitializedRejected ==
    (executed /\ ~preInitialized) =>
        /\ result.success = FALSE
        /\ result.errorMessage # ""
        /\ progress = <<>>
        /\ evals = <<>>
        /\ ~m_initialized

\* C4 witness: ProcessStack was called after a Shutdown of a Ready runtime
C4_Witness ==
    /\ executed
    /\ ~preInitialized
    /\ nTeardown = 1
    /\ result.errorMessage = "Julia runtime not initialized"

\* C5: when a foreign evaluation of ProcessStack raises (file list, config or
\* pipeline), ProcessStack returns success=false with a non-empty message, no
\* foreign exception is pending when it returns, and IsInitialized() is still
\* true, so that the next ProcessStack call is not refused and, with no
\* foreign error, succeeds.
C5_ForeignErrorSurfacedAndCleared ==
    (executed /\ preInitialized /\ fault.stage # 0) =>
        /\ result.success = FALSE
        /\ result.errorMessage # ""
        /\ excPending = NoException
        /\ m_initialized
        /\ ExecuteGlobal(Runtime, NoFault).result.success

\* C5 witness: the config evaluation raised in a ProcessStack call
C5_Witness ==
    /\ executed
    /\ preInitialized
    /\ fault.stage = 2
    /\ result.success = FALSE
    /\ m_initialized

\* the same foreign error with another description
SameStage(f, desc) == [stage |-> f.stage, desc |-> desc]

\* C6, as claimed: two runs of ProcessStack from the same state that differ
\* only in the foreign error raised return different errorMessages.
C6_MessageFollowsForeignDescription ==
    [][(executed' /\ fault'.stage # 0) =>
          \A desc \in ForeignErrors \ {fault'.desc} :
              ExecuteGlobal(Runtime, SameStage(fault', desc)).result.errorMessage
                  # result'.errorMessage]_vars

\* C6, amended: the errorMessage of a run that met a foreign error is
\* non-empty and is the same for every foreign error raised at the same
\* evaluation: it does not carry the foreign description.
C6_MessageFixedPerStage ==
    [][(executed' /\ fault'.stage # 0) =>
          /\ result'.errorMessage # ""
          /\ \A desc \in ForeignErrors :
                ExecuteGlobal(Runtime, SameStage(fault', desc)).result.errorMessage
                    = result'.errorMessage]_vars

\* C6 witness: the pipeline evaluation raised and the fixed message came back
C6_Witness ==
    /\ executed
    /\ fault.stage = 3
    /\ fault.desc = "MethodError"
    /\ result.errorMessage = "Processing failed - see console for details"

\* index of the first occurrence of key in s, 0 when there is none
IndexOf(s, key) ==
    LET hits == {i \in 1..(Len(s) - Len(key) + 1) :
                    SubSeq(s, i, i + Len(key) - 1) = key}
    IN  IF hits = {} THEN 0 ELSE CHOOSE i \in hits : \A j \in hits : i <= j

IsDigit(c) == \E d \in 0..9 : Digit(d) = c

DigitValue(c) == CHOOSE d \in 0..9 : Digit(d) = c

RECURSIVE ReadInt(_, _, _)
\* the decimal number that starts at position i of s
ReadInt(s, i, acc) ==
    IF i <= Len(s) /\ IsDigit(SubSeq(s, i, i))
    THEN ReadInt(s, i + 1, 10 * acc + DigitValue(SubSeq(s, i, i)))
    ELSE acc

\* the value a foreign command gives to fusion_strategy, -1 when it names none
SentFusionStrategy(cmd) ==
    LET i == IndexOf(cmd, "fusion_strategy=")
    IN  IF i = 0 \/ ~IsDigit(SubSeq(cmd, i + Len("fusion_strategy="),
                                    i + Len("fusion_strategy=")))
        THEN -1
        ELSE ReadInt(cmd, i + Len("fusion_strategy="), 0)

\* the commands of the last operation that carry a ProcessingConfig
ConfigCommands == {k \in 1..Len(evals) : IndexOf(evals[k], "ProcessingConfig(") # 0}

\* C7, as claimed: native strategy 0, 1, 2, 3 is sent as fusion_strategy
\* 2, 3, 4, 5.
C7_StrategySentIsIndexPlusTwo ==
    executed =>
        \A k \in ConfigCommands :
            SentFusionStrategy(evals[k]) = <<2, 3, 4, 5>>[p_fusionStrategy + 1]

\* C7, amended: native strategy 0, 1, 2, 3 (MLE, ConfidenceWeighted, Lucky,
\* MultiScale) is sent as fusion_strategy 1, 2, 3, 4: the index plus one, the
\* value of the same name in FusionStrategy.
C7_StrategySentIsIndexPlusOne ==
    executed =>
        \A k \in ConfigCommands :
            SentFusionStrategy(evals[k]) = <<1, 2, 3, 4>>[p_fusionStrategy + 1]

\* C7 witness: a run with strategy MultiScale (3) sent its config
C7_Witness ==
    /\ executed
    /\ p_fusionStrategy = 3
    /\ ConfigCommands = {2, 3}
    /\ SentFusionStrategy(evals[2]) = 4

\* C8: on every path that triggers execution, an empty file list, an empty
\* output directory or a runtime that is not initialized means that nothing
\* is evaluated in the foreign runtime and a reason is reported.
C8_PreconditionsCheckedOnEveryPath ==
    (/\ lastOp \in ExecutionOps
     /\ \/ Len(p_inputFiles) = 0
        \/ p_outputDirectory = ""
        \/ ~preInitialized) =>
        /\ evals = <<>>
        /\ \/ whyNot # ""
           \/ executed /\ ~result.success /\ result.errorMessage # ""

\* C9: on success the fused image path is outputDirectory + "/" +
\* outputPrefix + "_fused.fits" and the confidence map path is
\* outputDirectory + "/" + outputPrefix + "_confidence.fits", whatever the
\* files, the config and the calls before.
C9_ArtifactPathsFromArguments ==
    (executed /\ result.success) =>
        /\ result.fusedImagePath =
              args.outputDirectory \o "/" \o args.outputPrefix \o "_fused.fits"
        /\ result.confidenceMapPath =
              args.outputDirectory \o "/" \o args.outputPrefix
                  \o "_confidence.fits"

\* C9 witness: success for outputDirectory "/tmp/x" and outputPrefix "run1"
C9_Witness ==
    /\ executed
    /\ result.success
    /\ args.outputDirectory = "/tmp/x"
    /\ args.outputPrefix = "run1"
    /\ result.fusedImagePath = "/tmp/x/run1_fused.fits"
    /\ result.confidenceMapPath = "/tmp/x/run1_confidence.fits"

\* C10, as claimed: every ProcessStack call on a Ready runtime with a callback
\* calls it with 0 first and with 100 last.
C10_EveryReadyCallReportsStartAndCompletion ==
    (executed /\ preInitialized) =>
        /\ Len(progress) >= 2
        /\ progress[1] = 0
        /\ progress[Len(progress)] = 100

\* C10, amended: a ProcessStack call on a Ready runtime with a callback that
\* returns success=true has called it with 0 and then with 100; a call whose
\* pipeline evaluation raised has called it with 0 only, and a call whose
\* file-list or config evaluation raised has not called it.
C10_ProgressByOutcome ==
    (executed /\ preInitialized) =>
        /\ result.success => progress = <<0, 100>>
        /\ (~result.success /\ fault.stage = 3) => progress = <<0>>
        /\ (~result.success /\ fault.stage \in {1, 2}) => progress = <<>>
        /\ result.success <=> fault.stage = 0

\* C10 witness: a successful run reported 0 and 100
C10_Witness ==
    /\ executed
    /\ preInitialized
    /\ result.success
    /\ progress = <<0, 100>>

\* a sequence of percents that never goes down and stays within 0..100
NonDecreasingPercents(s) ==
    \A i \in 1..Len(s) :
        /\ s[i] \in 0..100
        /\ i > 1 => s[i - 1] <= s[i]

\* C11: within one ExecuteGlobal, the percents given to the progress callback,
\* and the values given to the status monitor (the final Complete(100)
\* included), never go down and all lie in 0..100.
C11_ProgressNonDecreasing ==
    executed =>
        /\ NonDecreasingPercents(progress)
        /\ NonDecreasingPercents(monitor)

\* C11 witness: a successful run gave 0 and 100 to the callback, and 0, 100 and
\* the final 100 to the monitor
C11_Witness ==
    /\ executed
    /\ progress = <<0, 100>>
    /\ monitor = <<0, 100, 100>>

\* C12: every ProcessingResult ProcessStack returns has success = false exactly
\* when errorMessage is non-empty, and when success = false both artifact
\* paths are empty.
C12_FailureHasMessageAndNoArtifacts ==
    executed =>
        /\ ~result.success <=> result.errorMessage # ""
        /\ ~result.success =>
              /\ result.fusedImagePath = ""
              /\ result.confidenceMapPath = ""

\* C12 witness: a run whose config evaluation raised returned a failure with a
\* message and no paths
C12_Witness ==
    /\ executed
    /\ fault.stage = 2
    /\ ~result.success
    /\ result.errorMessage = "Failed to create processing config"
    /\ result.fusedImagePath = ""

\* C13, as claimed: a successful ProcessingResult carries a confidence-map path
\* exactly when the instance asked for a confidence map.
C13_ConfidenceMapPathIffRequested ==
    (executed /\ result.success) =>
        (result.confidenceMapPath # "" <=> p_generateConfidenceMap)

\* the queries of the runtime
QueryOps == {"IsGPUAvailable", "ValidateFitsFile", "GetImageDimensions"}

\* C14: a query returns without raising; when the runtime was not initialized
\* or the query's evaluation raised, IsGPUAvailable and ValidateFitsFile return
\* false and GetImageDimensions returns (0, 0); a query made while the runtime
\* is not initialized hands nothing to jl_eval_string.
C14_QueriesDegradeToDefaults ==
    lastOp \in QueryOps =>
        /\ ~threw
        /\ (~preInitialized \/ fault.stage # 0) =>
              IF lastOp = "GetImageDimensions" THEN dims = <<0, 0>>
              ELSE ret = FALSE
        /\ ~preInitialized => evals = <<>>

\* C14 witness: IsGPUAvailable on an initialized runtime whose evaluation raised
\* returned false
C14_Witness ==
    /\ lastOp = "IsGPUAvailable"
    /\ preInitialized
    /\ fault.stage = 1
    /\ Len(evals) = 1
    /\ ret = FALSE

\* a foreign String[...] literal read as the foreign parser reads it: the
\* strings it denotes, and ok = FALSE when text stands outside a string
\* literal, a string interpolates ($), or the literal does not end at "]"
RECURSIVE ReadLiteral(_, _, _, _, _)
ReadLiteral(s, i, inString, cur, acc) ==
    LET c == SubSeq(s, i, i)
    IN  IF i > Len(s) THEN [ok |-> FALSE, paths |-> acc]
        ELSE IF inString
        THEN IF c = "\\" THEN
                 IF i + 1 > Len(s) THEN [ok |-> FALSE, paths |-> acc]
                 ELSE ReadLiteral(s, i + 2, TRUE,
                                  cur \o SubSeq(s, i + 1, i + 1), acc)
             ELSE IF c = "$" THEN [ok |-> FALSE, paths |-> acc]
             ELSE IF c = "\"" THEN
                 ReadLiteral(s, i + 1, FALSE, "", Append(acc, cur))
             ELSE ReadLiteral(s, i + 1, TRUE, cur \o c, acc)
        ELSE IF c = "\"" THEN ReadLiteral(s, i + 1, TRUE, "", acc)
        ELSE IF c \in {",", " "} THEN ReadLiteral(s, i + 1, FALSE, "", acc)
        ELSE IF c = "]" THEN [ok |-> i = Len(s), paths |-> acc]
        ELSE [ok |-> FALSE, paths |-> acc]

DenotedPaths(cmd) ==
    IF Len(cmd) >= 7 /\ SubSeq(cmd, 1, 7) = "String["
    THEN ReadLiteral(cmd, 8, FALSE, "", <<>>)
    ELSE [ok |-> FALSE, paths |-> <<>>]

\* C15, as claimed: the file-list literal ProcessStack hands to the foreign
\* runtime denotes exactly the paths it was given, in their order, and no
\* part of a path stands outside a string literal.
C15_FileListLiteralDenotesPaths ==
    (executed /\ Len(evals) >= 1) =>
        DenotedPaths(evals[1]) = [ok |-> TRUE, paths |-> args.inputFiles]

HasNul(s) == \E i \in 1..Len(s) : SubSeq(s, i, i) = NulChar

\* C16, as claimed: an execution on an initialized runtime whose input list
\* holds a path with a NUL in it returns a failure and hands no command to
\* the foreign runtime.
C16_UnencodableInputRejected ==
    (executed /\ preInitialized
        /\ \E i \in DOMAIN p_inputFiles : HasNul(p_inputFiles[i])) =>
        /\ ~result.success
        /\ evals = <<>>

\* C17, as claimed: the invocation attempt that follows a failed Initialize
\* (a direct one, or the one of InstallPixInsightModule) initializes the
\* runtime and does not fail with "not initialized".
C17_InvocationRetriesInitialize ==
    [][(/\ lastOp \in {"Initialize", "InstallPixInsightModule"}
        /\ ~m_initialized
        /\ lastOp' \in ExecutionOps) =>
          /\ m_initialized'
          /\ whyNot' # "Julia runtime not initialized."
          /\ result'.errorMessage # "Julia runtime not initialized"]_vars

\* C18: InstallPixInsightModule in FullInstall mode returns 0 and has created
\* the process and the interface, whatever Initialize did (returned true,
\* returned false, threw); an execution attempted while the runtime is not
\* initialized returns false with a reason and raises nothing.
C18_InstallNeverAborts ==
    /\ (lastOp = "InstallPixInsightModule" /\ installMode = "FullInstall") =>
          /\ ~threw
          /\ installRet = 0
          /\ theProcess
          /\ theInterface
    /\ (lastOp \in ExecutionOps /\ ~preInitialized) =>
          /\ ~threw
          /\ ret = FALSE
          /\ IF executed
             THEN result.errorMessage = "Julia runtime not initialized"
             ELSE whyNot # ""

\* C18 witness: a FullInstall whose Initialize threw returned 0 with the
\* process and the interface created
C18_Witness ==
    /\ lastOp = "InstallPixInsightModule"
    /\ installMode = "FullInstall"
    /\ console = <<"** BayesianAstro: Julia initialization deferred">>
    /\ ~m_initialized
    /\ installRet = 0
    /\ theProcess
    /\ theInterface

\* C20, as claimed: once jl_atexit_hook has torn the interpreter down, no
\* step calls jl_init again or makes IsInitialized() true, and no second
\* teardown is made.
C20_NoRestartAfterTeardown ==
    [][nTeardown >= 1 =>
          /\ nJlInit' = nJlInit
          /\ ~m_initialized'
          /\ nTeardown' = nTeardown]_vars

\* C19, as claimed: when two threads call Initialize on the fresh singleton at
\* the same time, jl_init is called and the module is loaded at most once in
\* total, and once both calls are over with the runtime initialized both
\* have returned true.
C19_ConcurrentInitializeStartsOnce ==
    /\ nJlInit <= 1
    /\ nPush <= 1
    /\ nUsing <= 1
    /\ ((\A t \in Threads : pc[t] = "done") /\ m_initialized) =>
          \A t \in Threads : tret[t]

\* C21: a step that runs ExecuteGlobal (and so ProcessStack) leaves every
\* parameter of the instance as it was (fusion strategy, input file list in
\* content and order, outlier sigma, confidence threshold, GPU flag,
\* confidence-map flag, output directory, output prefix), whether the run
\* succeeds or fails.
C21_ExecutionLeavesInstanceUnchanged ==
    [][(lastOp' \in ExecutionOps /\ executed') =>
          /\ p_fusionStrategy' = p_fusionStrategy
          /\ p_inputFiles' = p_inputFiles
          /\ p_outlierSigma' = p_outlierSigma
          /\ p_confidenceThreshold' = p_confidenceThreshold
          /\ p_useGPU' = p_useGPU
          /\ p_generateConfidenceMap' = p_generateConfidenceMap
          /\ p_outputDirectory' = p_outputDirectory
          /\ p_outputPrefix' = p_outputPrefix]_vars

\* C21 witness: a successful run whose input list held a path that the
\* conversion cut at its NUL; the list of the instance still holds the path
C21_Witness ==
    /\ executed
    /\ result.success
    /\ p_inputFiles = <<"/d/e\tf.fits">>
    /\ args.inputFiles = <<"/d/e">>

\* the operations of JuliaRuntime, called directly or through an execution
RuntimeOps == {"Initialize"} \cup QueryOps \cup ExecutionOps

\* C22, as claimed: when an operation of JuliaRuntime has returned, no foreign
\* exception is pending in the interpreter.
C22_NoExceptionLeftPending ==
    (lastOp \in RuntimeOps /\ ~threw) => excPending = NoException

\* the places of an event in the events of the last ProcessStack call
Places(kind, n) ==
    {i \in 1..Len(events) : events[i] = [kind |-> kind, n |-> n]}

\* C23: in a ProcessStack call on an initialized runtime with a callback, the
\* 0% callback comes after the file-list and the config evaluations, neither
\* of which raised, and before the pipeline evaluation; the pipeline is
\* evaluated at most once; the 100% callback is made exactly when the call
\* returns success = true, and then after the pipeline evaluation, which did
\* not raise.
C23_EventsOrdered ==
    (executed /\ preInitialized) =>
        /\ \A i \in Places("callback", 0) :
              /\ \E j \in Places("eval", 1) : j < i
              /\ \E j \in Places("eval", 2) : j < i
              /\ fault.stage \notin {1, 2}
              /\ \A j \in Places("eval", 3) : i < j
        /\ Cardinality(Places("eval", 3)) <= 1
        /\ Places("callback", 100) # {} <=> result.success
        /\ \A i \in Places("callback", 100) :
              /\ \E j \in Places("eval", 3) : j < i
              /\ fault.stage # 3

\* C23 witness: a successful call evaluated the file list and the config,
\* reported 0, evaluated the pipeline and reported 100
C23_Witness ==
    /\ executed
    /\ preInitialized
    /\ result.success
    /\ events = <<Evaluation(1), Evaluation(2),
                  [kind |-> "callback", n |-> 0],
                  Evaluation(3),
                  [kind |-> "callback", n |-> 100]>>

=============================================================================
